---- MODULE Spec2Model ----
(***************************************************************************)
(* Model of scanr: the sequential line-match-and-context engine            *)
(* (src/scanr.cpp) and the concurrent multi-file runner (src/main.cpp).    *)
(*                                                                         *)
(* Text is a sequence of one-character strings; offsets are 0-based as in  *)
(* the source, so line[pos] of the source is line[pos + 1] here.           *)
(***************************************************************************)
EXTENDS Integers, Sequences, FiniteSets, TLC

(***************************************************************************)
(* Bounds of the model.                                                    *)
(***************************************************************************)
MaxLines == 4
MaxContext == 2
MaxThreads == 2
MaxFiles == 2
MaxLineLen == 4

NPOS == -1

(***************************************************************************)
(* Characters.                                                             *)
(***************************************************************************)
LowerChars == {"a", "b", "x"}
UpperChars == {"A", "B", "X"}
DigitChars == {"0", "1"}

\* std::tolower in the "C" locale
ToLower(ch) ==
    CASE ch = "A" -> "a"
      [] ch = "B" -> "b"
      [] ch = "X" -> "x"
      [] OTHER -> ch

\* std::isalnum in the "C" locale
IsAlnum(ch) == ch \in LowerChars \cup UpperChars \cup DigitChars

\* the word characters of the ECMAScript \b assertion: [A-Za-z0-9_]
IsRegexWordChar(ch) == IsAlnum(ch) \/ ch = "_"

Min(a, b) == IF a < b THEN a ELSE b

\* s.substr(pos, len)
Substr(s, pos, len) == SubSeq(s, pos + 1, Min(pos + len, Len(s)))

(***************************************************************************)
(* Regular expressions: the part of the ECMAScript grammar the patterns of *)
(* the model use.  A compiled pattern is a sequence of tokens: a literal   *)
(* character, "." (any character of the line), the assertion \b, and the   *)
(* anchors ^ and $.                                                        *)
(***************************************************************************)
RECURSIVE RegexTokens(_)
RegexTokens(p) ==
    IF p = << >> THEN << >>
    ELSE IF Len(p) >= 2 /\ p[1] = "\\" /\ p[2] = "b"
         THEN << [t |-> "wb", c |-> ""] >> \o RegexTokens(SubSeq(p, 3, Len(p)))
    ELSE IF Len(p) >= 2 /\ p[1] = "\\"
         THEN << [t |-> "lit", c |-> p[2]] >> \o RegexTokens(SubSeq(p, 3, Len(p)))
    ELSE IF p[1] = "."
         THEN << [t |-> "any", c |-> ""] >> \o RegexTokens(Tail(p))
    ELSE IF p[1] = "^"
         THEN << [t |-> "bol", c |-> ""] >> \o RegexTokens(Tail(p))
    ELSE IF p[1] = "$"
         THEN << [t |-> "eol", c |-> ""] >> \o RegexTokens(Tail(p))
    ELSE << [t |-> "lit", c |-> p[1]] >> \o RegexTokens(Tail(p))

\* a constructor that accepts every pattern text
RegexValid_Always(p) == TRUE

\* whether std::regex accepts the pattern text: of the texts the grammar
\* above does not cover, the model holds those with a group that is opened
\* and never closed, for which the constructor throws std::regex_error
RegexValid(p) ==
    \A i \in 1..Len(p) :
        (p[i] = "(" /\ (i = 1 \/ p[i - 1] # "\\"))
            => \E j \in (i + 1)..Len(p) : p[j] = ")"

\* the \b assertion at offset pos of line
RegexWordBoundary(line, pos) ==
    LET before == pos > 0 /\ IsRegexWordChar(line[pos])
        after == pos < Len(line) /\ IsRegexWordChar(line[pos + 1])
    IN before # after

CharEq(c1, c2, icase) == IF icase THEN ToLower(c1) = ToLower(c2) ELSE c1 = c2

\* the offset just after a match of toks that starts at pos, or NPOS
RECURSIVE RegexMatchHere(_, _, _, _)
RegexMatchHere(toks, line, pos, icase) ==
    IF toks = << >> THEN pos
    ELSE LET tk == Head(toks)
             rest == Tail(toks)
         IN CASE tk.t = "lit" ->
                   IF pos < Len(line) /\ CharEq(line[pos + 1], tk.c, icase)
                   THEN RegexMatchHere(rest, line, pos + 1, icase) ELSE NPOS
              [] tk.t = "any" ->
                   IF pos < Len(line)
                   THEN RegexMatchHere(rest, line, pos + 1, icase) ELSE NPOS
              [] tk.t = "wb" ->
                   IF RegexWordBoundary(line, pos)
                   THEN RegexMatchHere(rest, line, pos, icase) ELSE NPOS
              [] tk.t = "bol" ->
                   IF pos = 0
                   THEN RegexMatchHere(rest, line, pos, icase) ELSE NPOS
              [] OTHER ->
                   IF pos = Len(line)
                   THEN RegexMatchHere(rest, line, pos, icase) ELSE NPOS

\* std::regex_search from offset from: <<position, length>> of the leftmost
\* match, or << >> when there is none
RegexSearch(rx, line, from) ==
    LET starts == {s \in from..Len(line) :
                      RegexMatchHere(rx.toks, line, s, rx.icase) # NPOS}
    IN IF starts = {} THEN << >>
       ELSE LET s == CHOOSE m \in starts : \A o \in starts : m <= o
            IN << s, RegexMatchHere(rx.toks, line, s, rx.icase) - s >>

\* std::sregex_iterator: every successive non-overlapping match; after an
\* empty match the search resumes one character further
RECURSIVE RegexIterate(_, _, _)
RegexIterate(rx, line, from) ==
    IF from > Len(line) THEN << >>
    ELSE LET m == RegexSearch(rx, line, from)
         IN IF m = << >> THEN << >>
            ELSE << m >> \o RegexIterate(rx, line,
                              IF m[2] > 0 THEN m[1] + m[2] ELSE m[1] + 1)

\* std::sort on pairs: ascending by first, then by second
PairLess(p, q) == p[1] < q[1] \/ (p[1] = q[1] /\ p[2] < q[2])

RECURSIVE InsertSorted(_, _)
InsertSorted(p, s) ==
    IF s = << >> THEN << p >>
    ELSE IF PairLess(p, Head(s)) THEN << p >> \o s
    ELSE << Head(s) >> \o InsertSorted(p, Tail(s))

RECURSIVE SortPairs(_)
SortPairs(s) == IF s = << >> THEN << >> ELSE InsertSorted(Head(s), SortPairs(Tail(s)))

(***************************************************************************)
(* Pattern compilation and the two matchers of src/scanr.cpp.              *)
(***************************************************************************)
\* a pattern handed over as it is
WrapPattern_None(p_str, match_whole_word) == p_str

\* the text handed to std::regex for one pattern: -w wraps it in \b unless
\* it already starts or ends with \b or an anchor
WrapPattern(p_str, match_whole_word) ==
    LET n == Len(p_str)
        starts_with_boundary ==
            (n >= 2 /\ SubSeq(p_str, 1, 2) = << "\\", "b" >>) \/ (n >= 1 /\ p_str[1] = "^")
        ends_with_boundary ==
            (n >= 2 /\ SubSeq(p_str, n - 1, n) = << "\\", "b" >>) \/ (n >= 1 /\ p_str[n] = "$")
        front == IF starts_with_boundary THEN p_str ELSE << "\\", "b" >> \o p_str
    IN IF ~match_whole_word THEN p_str
       ELSE IF ends_with_boundary THEN front ELSE front \o << "\\", "b" >>

compile_patterns(settings) ==
    [k \in 1..Len(settings.patterns) |->
        [toks |-> RegexTokens(WrapPattern(settings.patterns[k], settings.match_whole_word)),
         icase |-> settings.ignore_case]]

\* the loop over the patterns of regex_matches from pattern k on, before the
\* final sort
RECURSIVE RegexCollect(_, _, _, _)
RegexCollect(line, regex_patterns, only_matching, k) ==
    IF k > Len(regex_patterns) THEN << >>
    ELSE IF only_matching
         THEN RegexIterate(regex_patterns[k], line, 0)
                  \o RegexCollect(line, regex_patterns, only_matching, k + 1)
    ELSE LET m == RegexSearch(regex_patterns[k], line, 0)
         IN IF m # << >> THEN << m >>
            ELSE RegexCollect(line, regex_patterns, only_matching, k + 1)

\* the span list is left in the order the patterns were tried
regex_matches_Unsorted(line, regex_patterns, settings) ==
    LET found == RegexCollect(line, regex_patterns, settings.only_matching, 1)
    IN [is_match |-> found # << >>, match_positions |-> found]

regex_matches(line, regex_patterns, settings) ==
    LET found == RegexCollect(line, regex_patterns, settings.only_matching, 1)
    IN [is_match |-> found # << >>,
        match_positions |-> IF settings.only_matching THEN SortPairs(found) ELSE found]

is_word_boundary(line, pos) ==
    IF line = << >> THEN TRUE
    ELSE LET pos_is_alnum == pos < Len(line) /\ IsAlnum(line[pos + 1])
         IN IF pos = 0 THEN pos_is_alnum
            ELSE IF pos = Len(line) THEN IsAlnum(line[pos])
            ELSE IsAlnum(line[pos]) # pos_is_alnum

\* line.find(pattern, pos) and, with icase, find_insensitive
FindFrom(haystack, needle, pos, icase) ==
    LET hits == {i \in pos..(Len(haystack) - Len(needle)) :
                    \A k \in 1..Len(needle) : CharEq(haystack[i + k], needle[k], icase)}
    IN IF hits = {} THEN NPOS ELSE CHOOSE m \in hits : \A o \in hits : m <= o

find_insensitive(haystack, needle, pos) ==
    IF needle = << >> THEN pos ELSE FindFrom(haystack, needle, pos, TRUE)

\* the while loop of simple_matches for one pattern, from current_pos on
RECURSIVE SimpleScan(_, _, _, _)
SimpleScan(line, pattern, current_pos, settings) ==
    IF current_pos >= Len(line) THEN << >>
    ELSE LET match_start == IF settings.ignore_case
                            THEN find_insensitive(line, pattern, current_pos)
                            ELSE FindFrom(line, pattern, current_pos, FALSE)
         IN IF match_start = NPOS THEN << >>
            ELSE LET word_match_ok ==
                         ~settings.match_whole_word
                         \/ (is_word_boundary(line, match_start)
                             /\ is_word_boundary(line, match_start + Len(pattern)))
                 IN IF word_match_ok /\ ~settings.only_matching
                    THEN << << match_start, Len(pattern) >> >>
                    ELSE IF word_match_ok
                    THEN << << match_start, Len(pattern) >> >>
                             \o SimpleScan(line, pattern, match_start + 1, settings)
                    ELSE SimpleScan(line, pattern, match_start + 1, settings)

\* the loop over the patterns of simple_matches from pattern k on
RECURSIVE SimpleCollect(_, _, _)
SimpleCollect(line, settings, k) ==
    IF k > Len(settings.patterns) THEN << >>
    ELSE IF settings.patterns[k] = << >> THEN SimpleCollect(line, settings, k + 1)
    ELSE LET here == SimpleScan(line, settings.patterns[k], 0, settings)
         IN IF here # << >> /\ ~settings.only_matching THEN here
            ELSE here \o SimpleCollect(line, settings, k + 1)

simple_matches(line, settings) ==
    LET found == SimpleCollect(line, settings, 1)
    IN [is_match |-> found # << >>,
        match_positions |-> IF settings.only_matching THEN SortPairs(found) ELSE found]

\* lines 503-508 of process_stream: the matcher the settings select
MatchLine(line, settings) ==
    IF settings.use_extended_regex
    THEN regex_matches(line, compile_patterns(settings), settings)
    ELSE simple_matches(line, settings)

\* a matcher result used without regard to -v
OutputThisLine_NoInvert(is_match, invert_match) == is_match

\* line 511 of process_stream
OutputThisLine(is_match, invert_match) == is_match # invert_match

(***************************************************************************)
(* The sequential program: parse_arguments, main and process_stream of     *)
(* src/scanr.cpp, on one input stream.                                     *)
(***************************************************************************)
VARIABLES
    pc,                     \* "start": before parse_arguments; "scan": in the
                            \* getline loop of process_stream; "done": returned;
                            \* "failed": main returned 1 on a compile failure
    argv,                   \* the options as given on the command line
    settings,               \* Settings, as process_stream receives it
    lines,                  \* the lines read from the stream so far
    line_number,
    match_count,
    filename_printed_for_l,
    before_buffer,          \* deque of <<line number, text>>
    after_lines_to_print,
    last_printed_line,
    pending_separator,
    out                     \* what was written to std::cout, in order

seqvars == << pc, argv, settings, lines, line_number, match_count,
              filename_printed_for_l, before_buffer, after_lines_to_print,
              last_printed_line, pending_separator, out >>

\* the state of the concurrent runner (src/main.cpp)
VARIABLES
    mpc,                \* main: "start", "spawn", "join", "summary", "exit"
    config,             \* ScanrConfig after parse_arguments
    files,              \* the queued paths: path -> [openable, content]
    queue,              \* ConcurrentQueue::queue
    qmutex,             \* ConcurrentQueue::mutex: its owner, or 0
    output_mutex,       \* its owner, or 0
    total_matches,
    files_processed,
    workers,            \* the number of threads main has created
    joined,             \* the number of threads main has joined
    wpc,                \* per worker: its position in worker_thread
    file_path,          \* per worker: the local of worker_thread (0: none)
    wline,              \* per worker: line_number of process_file (0 outside it)
    wcount,             \* per worker: match_count of process_file (0 outside it)
    hstart,             \* per worker: the offset of the iterator start of the
                        \* highlight loop (0 outside it)
    handed,             \* per path: how many calls of try_pop returned it
    pout,               \* what was written to std::cout and std::cerr, in order
    exit_status

parvars == << mpc, config, files, queue, qmutex, output_mutex, total_matches,
              files_processed, workers, joined, wpc, file_path, wline, wcount,
              hstart, handed, pout, exit_status >>

\* one application of the matchers to one line
VARIABLES
    mstage,             \* "input": a command line and a line are given;
                        \* "matched": the matchers have run on the line
    margv,              \* the options of src/scanr.cpp as given
    mline,              \* the line
    mseq,               \* what src/scanr.cpp's matcher returned
    mpar,               \* what std::regex_search returned in src/main.cpp
    mwb,                \* what is_word_boundary returned at each offset of
                        \* the line (entry pos + 1 is for offset pos)
    mrecs,              \* the std::cout lines process_stream writes for the line
    mpat                \* the pattern texts handed to std::regex by both
                        \* programs, and the texts a second wrapping gives

matchvars == << mstage, margv, mline, mseq, mpar, mwb, mrecs, mpat >>

\* the loop of main over settings.files (src/scanr.cpp)
VARIABLES
    ffiles,             \* settings.files: per file, whether it can be opened
    fidx,               \* how many files the loop has taken
    ferr,               \* the files reported on std::cerr, in order
    fscanned,           \* the files process_stream was called for, in order
    fprev               \* after_lines_to_print when the previous call of
                        \* process_stream returned (0 before the first)

filevars == << ffiles, fidx, ferr, fscanned, fprev >>

vars == << seqvars, parvars, matchvars, filevars >>

\* the patterns and the line texts of the bounded runs: "ax" matches the
\* pattern "a." as a regular expression only (also between \b); "axa." holds
\* two regex matches and one literal occurrence, none of them a whole word;
\* "b" matches in no mode
ThePatterns == << << "a", "." >> >>
\* a pattern list whose second pattern std::regex rejects
BadPatterns == << << "a", "." >>, << "(" >> >>
LineTexts == { << "a", "x" >>, << "a", "x", "a", "." >>, << "b" >> }

DefaultSettings ==
    [count_only |-> FALSE, ignore_case |-> FALSE, list_filenames |-> FALSE,
     invert_match |-> FALSE, use_extended_regex |-> FALSE,
     match_whole_word |-> FALSE, only_matching |-> FALSE,
     lines_after |-> 0, lines_before |-> 0, patterns |-> << >>]

ArgvSet ==
    [count_only : BOOLEAN, ignore_case : BOOLEAN, list_filenames : BOOLEAN,
     invert_match : BOOLEAN, use_extended_regex : BOOLEAN,
     match_whole_word : BOOLEAN, only_matching : BOOLEAN,
     lines_after : 0..MaxContext, lines_before : 0..MaxContext,
     patterns : {ThePatterns, BadPatterns}]

\* parse_arguments: the options are copied, then the adjustments for
\* conflicting options are applied in order
parse_arguments(a) ==
    LET s1 == IF a.list_filenames \/ a.count_only
              THEN [a EXCEPT !.lines_after = 0, !.lines_before = 0,
                             !.only_matching = FALSE]
              ELSE a
    IN IF s1.only_matching
       THEN [s1 EXCEPT !.lines_after = 0, !.lines_before = 0]
       ELSE s1

\* main, lines 56-59: -w, -i and -o switch the regex engine on
ForceRegex(s) ==
    IF s.match_whole_word \/ s.ignore_case \/ s.only_matching
    THEN [s EXCEPT !.use_extended_regex = TRUE]
    ELSE s

\* the Settings process_stream runs with for a command line
Configure(a) == ForceRegex(parse_arguments(a))

\* main, lines 61-74: compile_patterns runs only when the regex engine is
\* used; it throws at the first pattern std::regex rejects
CompileFails(s) ==
    /\ s.use_extended_regex
    /\ \E k \in 1..Len(s.patterns) :
          ~RegexValid(WrapPattern(s.patterns[k], s.match_whole_word))

(***************************************************************************)
(* Output records.  One entry of out is one emission: a separator, a       *)
(* context line, a match line (recs holds the std::cout lines written for  *)
(* it: the line, or with -o one per span), the -l filename, the -c count.  *)
(***************************************************************************)
SepRec == [kind |-> "sep", n |-> 0, recs |-> << << "-", "-" >> >>]
ContextRec(n, text) == [kind |-> "context", n |-> n, recs |-> << text >>]
MatchRec(n, line, only_matching, match_positions) ==
    [kind |-> "match", n |-> n,
     recs |-> IF only_matching
              THEN [k \in 1..Len(match_positions) |->
                       Substr(line, match_positions[k][1], match_positions[k][2])]
              ELSE << line >>]
FilenameRec == [kind |-> "filename", n |-> 0, recs |-> << >>]
CountRec(count) == [kind |-> "count", n |-> count, recs |-> << >>]

\* the gap test off by one
SeparatorOwed_Far(s, last, n) ==
    (s.lines_before > 0 \/ s.lines_after > 0) /\ last # -1 /\ n > last + 2

\* the gap test without the check that a line was printed
SeparatorOwed_NoFirstCheck(s, last, n) ==
    (s.lines_before > 0 \/ s.lines_after > 0) /\ n > last + 1

\* line 537: a separator is owed before the next output
SeparatorOwed(s, last, n) ==
    (s.lines_before > 0 \/ s.lines_after > 0) /\ last # -1 /\ n > last + 1

\* the test against last_printed_line never passes
NotYetPrinted_Never(n, last) == FALSE

\* no test against last_printed_line
NotYetPrinted_Always(n, last) == TRUE

\* lines 545, 561, 593: the line was not printed yet
NotYetPrinted(n, last) == n > last

\* the owed separator is printed but the flag is not cleared
EmitLine_KeepPending(st, rec) ==
    [last |-> rec.n,
     pending |-> st.pending,
     out |-> IF st.pending THEN st.out \o << SepRec, rec >> ELSE Append(st.out, rec)]

\* lines 546-554, 562-581, 594-604: print the owed separator, then the line
EmitLine(st, rec) ==
    [last |-> rec.n,
     pending |-> FALSE,
     out |-> IF st.pending THEN st.out \o << SepRec, rec >> ELSE Append(st.out, rec)]

\* lines 543-556: the loop over before_buffer
RECURSIVE DrainBefore(_, _)
DrainBefore(buf, st) ==
    IF buf = << >> THEN st
    ELSE IF NotYetPrinted(Head(buf)[1], st.last)
         THEN DrainBefore(Tail(buf), EmitLine(st, ContextRec(Head(buf)[1], Head(buf)[2])))
    ELSE DrainBefore(Tail(buf), st)

\* the oldest entry is never evicted
PushBefore_NoEvict(buf, entry, lines_before) ==
    IF lines_before > 0 THEN Append(buf, entry) ELSE buf

\* lines 612-618: push the line, evict the oldest beyond lines_before
PushBefore(buf, entry, lines_before) ==
    IF lines_before > 0
    THEN LET pushed == Append(buf, entry)
         IN IF Len(pushed) > lines_before THEN Tail(pushed) ELSE pushed
    ELSE buf

\* the countdown one short
TrailingCount_Short(s) == IF s.lines_after > 0 THEN s.lines_after - 1 ELSE 0

\* line 587
TrailingCount(s) == s.lines_after

\* a count of zero is not printed
FinalOutput_NonZero(s, count) ==
    IF s.count_only /\ count > 0 THEN << CountRec(count) >> ELSE << >>

\* lines 623-629: the output after the loop
FinalOutput(s, count) == IF s.count_only THEN << CountRec(count) >> ELSE << >>

SeqInit ==
    /\ pc = "start"
    /\ argv = DefaultSettings
    /\ settings = DefaultSettings
    /\ lines = << >>
    /\ line_number = 0
    /\ match_count = 0
    /\ filename_printed_for_l = FALSE
    /\ before_buffer = << >>
    /\ after_lines_to_print = 0
    /\ last_printed_line = -1
    /\ pending_separator = FALSE
    /\ out = << >>

\* parse_arguments and main up to the call of process_stream, or up to the
\* return 1 of a compile failure
ParseArguments ==
    /\ pc = "start"
    /\ \E a \in ArgvSet :
          /\ argv' = a
          /\ settings' = Configure(a)
          /\ pc' = IF CompileFails(Configure(a)) THEN "failed" ELSE "scan"
    /\ UNCHANGED << lines, line_number, match_count, filename_printed_for_l,
                    before_buffer, after_lines_to_print, last_printed_line,
                    pending_separator, out >>
    /\ UNCHANGED << parvars, matchvars, filevars >>

\* getline delivers a line that is eligible for output, with -l
ListFilenamesLine(line) ==
    /\ pc = "scan" /\ line_number < MaxLines
    /\ OutputThisLine(MatchLine(line, settings).is_match, settings.invert_match)
    /\ settings.list_filenames
    /\ lines' = Append(lines, line)
    /\ line_number' = line_number + 1
    /\ match_count' = match_count + 1
    /\ out' = IF filename_printed_for_l THEN out ELSE Append(out, FilenameRec)
    /\ filename_printed_for_l' = TRUE
    /\ pc' = "done"
    /\ UNCHANGED << argv, settings, before_buffer, after_lines_to_print,
                    last_printed_line, pending_separator >>
    /\ UNCHANGED << parvars, matchvars, filevars >>

\* getline delivers a line that is eligible for output, with -c
CountOnlyLine(line) ==
    /\ pc = "scan" /\ line_number < MaxLines
    /\ OutputThisLine(MatchLine(line, settings).is_match, settings.invert_match)
    /\ ~settings.list_filenames /\ settings.count_only
    /\ lines' = Append(lines, line)
    /\ line_number' = line_number + 1
    /\ match_count' = match_count + 1
    /\ UNCHANGED << pc, argv, settings, filename_printed_for_l, before_buffer,
                    after_lines_to_print, last_printed_line, pending_separator, out >>
    /\ UNCHANGED << parvars, matchvars, filevars >>

\* getline delivers a line that is eligible for output, in full output mode
EligibleLine(line) ==
    /\ pc = "scan" /\ line_number < MaxLines
    /\ LET m == MatchLine(line, settings)
           n == line_number + 1
           st0 == [last |-> last_printed_line,
                   pending |-> pending_separator
                               \/ SeparatorOwed(settings, last_printed_line, n),
                   out |-> out]
           st1 == IF settings.lines_before > 0 THEN DrainBefore(before_buffer, st0) ELSE st0
           st2 == IF NotYetPrinted(n, st1.last)
                  THEN EmitLine(st1, MatchRec(n, line, settings.only_matching,
                                              m.match_positions))
                  ELSE st1
       IN /\ OutputThisLine(m.is_match, settings.invert_match)
          /\ ~settings.list_filenames /\ ~settings.count_only
          /\ lines' = Append(lines, line)
          /\ line_number' = n
          /\ match_count' = match_count + 1
          /\ last_printed_line' = st2.last
          /\ pending_separator' = st2.pending
          /\ out' = st2.out
          /\ after_lines_to_print' = TrailingCount(settings)
          /\ before_buffer' = PushBefore(before_buffer, << n, line >>, settings.lines_before)
    /\ UNCHANGED << pc, argv, settings, filename_printed_for_l >>
    /\ UNCHANGED << parvars, matchvars, filevars >>

\* getline delivers a line that is not eligible for output
OtherLine(line) ==
    /\ pc = "scan" /\ line_number < MaxLines
    /\ LET m == MatchLine(line, settings)
           n == line_number + 1
           st0 == [last |-> last_printed_line, pending |-> pending_separator, out |-> out]
           st1 == IF after_lines_to_print > 0 /\ NotYetPrinted(n, last_printed_line)
                  THEN EmitLine(st0, ContextRec(n, line))
                  ELSE st0
       IN /\ ~OutputThisLine(m.is_match, settings.invert_match)
          /\ lines' = Append(lines, line)
          /\ line_number' = n
          /\ last_printed_line' = st1.last
          /\ pending_separator' = st1.pending
          /\ out' = st1.out
          /\ after_lines_to_print' =
                 IF after_lines_to_print > 0 THEN after_lines_to_print - 1
                 ELSE after_lines_to_print
          /\ before_buffer' = PushBefore(before_buffer, << n, line >>, settings.lines_before)
    /\ UNCHANGED << pc, argv, settings, match_count, filename_printed_for_l >>
    /\ UNCHANGED << parvars, matchvars, filevars >>

\* getline fails: the loop ends, the count is printed with -c
EndOfStream ==
    /\ pc = "scan"
    /\ out' = out \o FinalOutput(settings, match_count)
    /\ pc' = "done"
    /\ UNCHANGED << argv, settings, lines, line_number, match_count,
                    filename_printed_for_l, before_buffer, after_lines_to_print,
                    last_printed_line, pending_separator >>
    /\ UNCHANGED << parvars, matchvars, filevars >>

SeqNext ==
    \/ ParseArguments
    \/ \E line \in LineTexts : ListFilenamesLine(line)
    \/ \E line \in LineTexts : CountOnlyLine(line)
    \/ \E line \in LineTexts : EligibleLine(line)
    \/ \E line \in LineTexts : OtherLine(line)
    \/ EndOfStream

(***************************************************************************)
(* main of src/scanr.cpp with several files: the loop of lines 85-98 calls *)
(* process_stream once for every file that opens.  pc is "next" at the     *)
(* head of the loop and "exit" at return 0; out and lines hold what the    *)
(* current call has written and read.                                      *)
(***************************************************************************)
\* the command lines of the runs over several files: every context size in
\* full output mode, and -c, -l and both
FilesArgvSet ==
    {a \in ArgvSet :
        /\ a.patterns = ThePatterns
        /\ ~a.ignore_case /\ ~a.invert_match /\ ~a.use_extended_regex
        /\ ~a.match_whole_word /\ ~a.only_matching
        /\ (a.count_only \/ a.list_filenames)
               => (a.lines_after = 0 /\ a.lines_before = 0)}

FileIdle ==
    /\ ffiles = << >>
    /\ fidx = 0
    /\ ferr = << >>
    /\ fscanned = << >>
    /\ fprev = 0

\* line 90: the diagnostic of a failed open is written unless -l or -c
OpenFailureReported(s) == ~s.list_filenames /\ ~s.count_only

\* the locals of the previous call are taken over
EnterStream_Keep(locals) == locals

\* lines 468-480: the locals of process_stream as declared, whatever the
\* locals of an earlier call held
EnterStream(locals) ==
    [line_number |-> 0, match_count |-> 0, filename_printed_for_l |-> FALSE,
     before_buffer |-> << >>, after_lines_to_print |-> 0,
     last_printed_line |-> -1, pending_separator |-> FALSE]

\* parse_arguments and main up to the loop over the files
StartFiles ==
    /\ pc = "start"
    /\ \E a \in FilesArgvSet, n \in 1..MaxFiles :
          \E fs \in [1..n -> BOOLEAN] :
             /\ argv' = a
             /\ settings' = Configure(a)
             /\ ffiles' = fs
    /\ pc' = "next"
    /\ UNCHANGED << lines, line_number, match_count, filename_printed_for_l,
                    before_buffer, after_lines_to_print, last_printed_line,
                    pending_separator, out >>
    /\ UNCHANGED << fidx, ferr, fscanned, fprev >>
    /\ UNCHANGED << parvars, matchvars >>

\* lines 86-94: the next file cannot be opened
OpenFails ==
    /\ pc \in {"next", "done"} /\ fidx < Len(ffiles)
    /\ ~ffiles[fidx + 1]
    /\ fidx' = fidx + 1
    /\ ferr' = IF OpenFailureReported(settings) THEN Append(ferr, fidx + 1) ELSE ferr
    /\ pc' = "next"
    /\ UNCHANGED << argv, settings, lines, line_number, match_count,
                    filename_printed_for_l, before_buffer, after_lines_to_print,
                    last_printed_line, pending_separator, out >>
    /\ UNCHANGED << ffiles, fscanned, fprev >>
    /\ UNCHANGED << parvars, matchvars >>

\* lines 86-87, 95: the next file opens and process_stream is entered
OpenStream ==
    /\ pc \in {"next", "done"} /\ fidx < Len(ffiles)
    /\ ffiles[fidx + 1]
    /\ LET loc == EnterStream(
                      [line_number |-> line_number, match_count |-> match_count,
                       filename_printed_for_l |-> filename_printed_for_l,
                       before_buffer |-> before_buffer,
                       after_lines_to_print |-> after_lines_to_print,
                       last_printed_line |-> last_printed_line,
                       pending_separator |-> pending_separator])
       IN /\ line_number' = loc.line_number
          /\ match_count' = loc.match_count
          /\ filename_printed_for_l' = loc.filename_printed_for_l
          /\ before_buffer' = loc.before_buffer
          /\ after_lines_to_print' = loc.after_lines_to_print
          /\ last_printed_line' = loc.last_printed_line
          /\ pending_separator' = loc.pending_separator
    /\ lines' = << >>
    /\ out' = << >>
    /\ fidx' = fidx + 1
    /\ fscanned' = Append(fscanned, fidx + 1)
    /\ fprev' = after_lines_to_print
    /\ pc' = "scan"
    /\ UNCHANGED << argv, settings, ffiles, ferr >>
    /\ UNCHANGED << parvars, matchvars >>

\* line 101: the loop is over, return 0
EndFiles ==
    /\ pc \in {"next", "done"} /\ fidx = Len(ffiles) /\ fidx > 0
    /\ pc' = "exit"
    /\ UNCHANGED << argv, settings, lines, line_number, match_count,
                    filename_printed_for_l, before_buffer, after_lines_to_print,
                    last_printed_line, pending_separator, out >>
    /\ UNCHANGED filevars
    /\ UNCHANGED << parvars, matchvars >>

FilesNext ==
    \/ StartFiles
    \/ OpenFails
    \/ OpenStream
    \/ \E line \in LineTexts : ListFilenamesLine(line)
    \/ \E line \in LineTexts : CountOnlyLine(line)
    \/ \E line \in LineTexts : EligibleLine(line)
    \/ \E line \in LineTexts : OtherLine(line)
    \/ EndOfStream
    \/ EndFiles

(***************************************************************************)
(* Properties of the sequential program.                                   *)
(***************************************************************************)
IsLineRec(r) == r.kind \in {"match", "context"}
LineIdx == {i \in 1..Len(out) : IsLineRec(out[i])}
EmittedNumbers == {out[i].n : i \in LineIdx}
ContextEnabled == settings.lines_before > 0 \/ settings.lines_after > 0
FullOutputMode == pc # "start" /\ ~settings.count_only /\ ~settings.list_filenames

\* line i of the stream is eligible for output under the settings s
EligibleUnder(i, s) ==
    OutputThisLine(MatchLine(lines[i], s).is_match, s.invert_match)
EligibleSet == {i \in 1..Len(lines) : EligibleUnder(i, settings)}

\* two emitted lines with no emitted line between them
Adjacent(i, j) ==
    /\ i \in LineIdx /\ j \in LineIdx /\ i < j
    /\ \A k \in (i + 1)..(j - 1) : k \notin LineIdx

\* C1: the line numbers process_stream emits (match and context lines, not
\* separators) are strictly increasing in output order, so no line is emitted
\* twice, and last_printed_line is the largest of them (-1 before the first).
C1_StrictlyIncreasing ==
    /\ \A i, j \in LineIdx : i < j => out[i].n < out[j].n
    /\ last_printed_line = IF LineIdx = {} THEN -1
                           ELSE out[CHOOSE m \in LineIdx : \A o \in LineIdx : o <= m].n

C1_Witness ==
    /\ settings.lines_before > 0 /\ settings.lines_after > 0
    /\ \E i, j, k \in LineIdx :
          /\ i < j /\ j < k
          /\ out[i].kind = "context" /\ out[j].kind = "match" /\ out[k].kind = "context"
    /\ Cardinality(EligibleSet) >= 2

\* C2: a separator is written only at a gap: the line emitted right after a
\* separator has a number greater than the previously emitted number + 1.
C2_SeparatorOnlyAtGap ==
    \A i \in 2..(Len(out) - 1) :
        (out[i].kind = "sep" /\ IsLineRec(out[i - 1]) /\ IsLineRec(out[i + 1]))
            => out[i + 1].n > out[i - 1].n + 1

\* C3: in a context-enabled run, two consecutively emitted lines whose numbers
\* differ by more than 1 have exactly one separator between them.
C3_OneSeparatorPerGap ==
    ContextEnabled =>
        \A i, j \in LineIdx :
            (Adjacent(i, j) /\ out[j].n > out[i].n + 1)
                => (j = i + 2 /\ out[i + 1].kind = "sep")

C3_Witness ==
    /\ ContextEnabled
    /\ \E i, j \in LineIdx :
          /\ Adjacent(i, j) /\ out[j].n > out[i].n + 1
          /\ j = i + 2 /\ out[i + 1].kind = "sep"
    /\ \E i, j \in LineIdx : Adjacent(i, j) /\ out[j].n = out[i].n + 1

\* C4: no separator precedes the first emitted line (pending_separator is only
\* set once last_printed_line is), and with lines_before = lines_after = 0 no
\* separator is written at all.
C4_NoLeadingSeparator ==
    /\ \A i \in 1..Len(out) : out[i].kind = "sep" => \E j \in LineIdx : j < i
    /\ pending_separator => last_printed_line # -1
    /\ ~ContextEnabled => \A i \in 1..Len(out) : out[i].kind # "sep"

C4_Witness ==
    /\ ContextEnabled
    /\ pc = "done"
    /\ out # << >> /\ out[1].kind = "context" /\ out[1].n > 1
    /\ Len(out) >= 2

C6_CountEqualsFullMode ==
    (pc = "done" /\ argv.count_only /\ ~argv.list_filenames)
        => \A i \in 1..Len(out) :
               out[i].kind = "count"
                   => out[i].n = Cardinality({k \in 1..Len(lines) :
                          EligibleUnder(k, Configure([argv EXCEPT !.count_only = FALSE]))})

\* the same abort in src/scanr.cpp: a pattern list that does not compile ends
\* main before the stream is read and before anything is written
SeqCompileFailureAborts ==
    (pc # "start" /\ settings.use_extended_regex /\ argv.patterns = BadPatterns)
        => /\ pc = "failed"
           /\ lines = << >> /\ line_number = 0 /\ match_count = 0
           /\ out = << >>

C8_InvertCount ==
    LET k == Cardinality({i \in 1..Len(lines) : MatchLine(lines[i], settings).is_match})
    IN /\ Len(lines) = line_number
       /\ match_count = IF settings.invert_match THEN Len(lines) - k ELSE k

C8_Witness ==
    /\ pc = "done" /\ settings.invert_match
    /\ Len(lines) = 3
    /\ Cardinality({i \in 1..Len(lines) : MatchLine(lines[i], settings).is_match}) = 1
    /\ match_count = 2

\* C18: with -l a finished stream has written its path once if it holds an
\* output-eligible line and nothing if it holds none, and no other record,
\* whatever the other options.
C18_FilenamesOnly ==
    (pc = "done" /\ settings.list_filenames)
        => out = IF EligibleSet # {} THEN << FilenameRec >> ELSE << >>

\* the same without -c: it holds
FilenamesOnlyWithoutCount ==
    (pc = "done" /\ settings.list_filenames /\ ~settings.count_only)
        => out = IF EligibleSet # {} THEN << FilenameRec >> ELSE << >>

\* the indices of out that hold line i of the stream
EmissionsOf(i) == {j \in LineIdx : out[j].n = i}

C24_Original ==
    [][(after_lines_to_print = 1 /\ after_lines_to_print' = 0)
          => pending_separator']_vars

\* C24: the step that takes the trailing countdown from 1 to 0 leaves
\* pending_separator clear, and the flag is clear between any two lines: it
\* is set only by the gap test at an eligible line and cleared again by the
\* line emitted in that step.
C24_CountdownEnd ==
    /\ [](~pending_separator)
    /\ [][(after_lines_to_print = 1 /\ after_lines_to_print' = 0)
             => ~pending_separator']_vars

\* -A 1: the countdown ran out on line 2, a separator was emitted at line 4
C24_Witness ==
    /\ FullOutputMode /\ settings.lines_after = 1 /\ settings.lines_before = 1
    /\ line_number = 4 /\ EligibleSet = {1, 4}
    /\ after_lines_to_print = 1
    /\ \E j \in LineIdx : out[j].kind = "context" /\ out[j].n = 2
    /\ \E j \in 1..Len(out) : out[j].kind = "sep"
    /\ ~pending_separator

\* the before-context window after n lines: the last min(n, size) lines
LastLines(n, size) ==
    [k \in 1..Min(n, size) |->
        << n - Min(n, size) + k, lines[n - Min(n, size) + k] >>]

\* C25: after each line of a stream read in full output mode before_buffer
\* holds the number and the text of the last min(n, lines_before) lines, in
\* increasing order of line number; it never holds more than lines_before
\* entries and is empty when lines_before is 0.
C25_BeforeBuffer ==
    FullOutputMode =>
        /\ before_buffer = LastLines(line_number, settings.lines_before)
        /\ Len(before_buffer) <= settings.lines_before
        /\ settings.lines_before = 0 => before_buffer = << >>

\* the window slid: line 1 was evicted when line 3 was pushed
C25_Witness ==
    /\ FullOutputMode /\ settings.lines_before = 2
    /\ line_number = 3
    /\ Len(before_buffer) = 2 /\ before_buffer[1][1] = 2 /\ before_buffer[2][1] = 3

\* how many times file f is in the sequence s of file numbers
TimesIn(f, s) == Cardinality({i \in 1..Len(s) : s[i] = f})

\* C22: when main of src/scanr.cpp returns, every file that could not be
\* opened was reported once on std::cerr, whatever the output mode, and
\* process_stream was called once for every file that opens.
C22_OpenFailureReported ==
    pc = "exit" =>
        \A f \in 1..Len(ffiles) :
            IF ffiles[f]
            THEN TimesIn(f, fscanned) = 1 /\ TimesIn(f, ferr) = 0
            ELSE TimesIn(f, ferr) = 1 /\ TimesIn(f, fscanned) = 0

\* the same without -c and -l: it holds
OpenFailureReportedInFullMode ==
    (pc = "exit" /\ ~settings.count_only /\ ~settings.list_filenames) =>
        \A f \in 1..Len(ffiles) :
            IF ffiles[f]
            THEN TimesIn(f, fscanned) = 1 /\ TimesIn(f, ferr) = 0
            ELSE TimesIn(f, ferr) = 1 /\ TimesIn(f, fscanned) = 0

\* in every mode the files that open are all scanned: it holds
RemainingFilesProcessed ==
    pc = "exit" =>
        \A f \in 1..Len(ffiles) : TimesIn(f, fscanned) = IF ffiles[f] THEN 1 ELSE 0

\* C26: every call of process_stream starts with an empty before_buffer, a
\* countdown of 0, last_printed_line -1 and no pending separator, whatever
\* the call for the file before left; so in full output mode the lines
\* emitted for a file are those within lines_before before and lines_after
\* after an eligible line of that same file, and the output for a file does
\* not start with a separator.
C26_StreamLocal ==
    /\ (pc = "scan" /\ lines = << >>) =>
          /\ line_number = 0 /\ match_count = 0 /\ ~filename_printed_for_l
          /\ before_buffer = << >> /\ after_lines_to_print = 0
          /\ last_printed_line = -1 /\ ~pending_separator
          /\ out = << >>
    /\ FullOutputMode =>
          /\ EmittedNumbers =
                 {k \in 1..Len(lines) :
                     \E m \in EligibleSet :
                         m - settings.lines_before <= k /\ k <= m + settings.lines_after}
          /\ out # << >> => out[1].kind # "sep"

\* the first file ended while its trailing countdown was running, and the
\* first line of the second file, not eligible, was read and not emitted
C26_Witness ==
    /\ pc = "scan" /\ FullOutputMode
    /\ fidx = 2 /\ fscanned = << 1, 2 >> /\ fprev > 0
    /\ line_number = 1 /\ EligibleSet = {}
    /\ out = << >>

(***************************************************************************)
(* The concurrent runner: src/main.cpp.                                    *)
(***************************************************************************)
Workers == 1..MaxThreads

\* the pattern and the files of the bounded runs: a file cannot be opened,
\* or holds one line that does not match, or two lines that match
ParPattern == << "a", "." >>
\* the empty pattern (it matches the empty string at offset 0 of every line)
\* and a pattern std::regex rejects
EmptyPattern == << >>
BadPattern == << "(" >>
ParPatterns == {ParPattern, EmptyPattern, BadPattern}
FileKinds ==
    { [openable |-> FALSE, content |-> << >>],
      [openable |-> TRUE, content |-> << << "b" >> >>],
      [openable |-> TRUE, content |-> << << "a", "x" >>, << "a", "x" >> >>] }

DefaultConfig ==
    [case_insensitive |-> FALSE, invert_match |-> FALSE,
     show_filename_only |-> FALSE, count_only |-> FALSE, quiet |-> FALSE,
     color_output |-> TRUE, whole_word |-> FALSE, whole_line |-> FALSE,
     max_threads |-> 0, pattern |-> << >>]

\* the command lines of the bounded runs; max_threads is the -j value (at
\* least 1) or std::thread::hardware_concurrency(), which may be 0
ConfigArgs ==
    [case_insensitive : {FALSE}, invert_match : BOOLEAN,
     show_filename_only : BOOLEAN, count_only : BOOLEAN, quiet : BOOLEAN,
     color_output : BOOLEAN, whole_word : {FALSE}, whole_line : {FALSE},
     max_threads : 0..MaxThreads, pattern : ParPatterns]

\* parse_arguments, lines 291-295: -q switches -l and -c off
ParseConfig(c) ==
    IF c.quiet THEN [c EXCEPT !.show_filename_only = FALSE, !.count_only = FALSE]
    ELSE c

\* compile_regex, lines 90-96: -w wraps the pattern in \b, then -x in ^ and $
ProcessedPattern(c) ==
    LET p1 == IF c.whole_word THEN << "\\", "b" >> \o c.pattern \o << "\\", "b" >>
              ELSE c.pattern
    IN IF c.whole_line THEN << "^" >> \o p1 \o << "$" >> ELSE p1

\* compile_regex, lines 98-103: the regex, when the constructor does not throw
compile_regex(c) ==
    [toks |-> RegexTokens(ProcessedPattern(c)), icase |-> c.case_insensitive]

\* lines 141-145: std::regex_search on the range [start, line.cend()); the
\* offset sm[0].second of the end of the match, or NPOS when there is none
HighlightSearch(c, line, start) ==
    LET m == RegexSearch(compile_regex(c), SubSeq(line, start + 1, Len(line)), 0)
    IN IF m = << >> THEN NPOS ELSE start + m[1] + m[2]

\* lines 123-125 of process_file
FileLineEligible(line, c) ==
    (RegexSearch(compile_regex(c), line, 0) # << >>) # c.invert_match

\* line 320: the number of threads main creates
ActualThreads(max_threads, queued) == Min(max_threads, queued)

\* the guard goes out of scope and the mutex stays locked
ReleaseGuard_Leak(owner) == owner

\* lines 113, 163, 174: the std::lock_guard on output_mutex is destroyed at
\* the end of its scope, which unlocks the mutex
ReleaseGuard(owner) == 0

\* a lock that is granted whoever owns the mutex
CanLock_Always(m) == TRUE

\* std::mutex::lock returns once no thread owns the mutex
CanLock(m) == m = 0

\* an open that never fails
is_open_Always(file) == TRUE

\* line 109: file.is_open()
is_open(file) == file.openable

\* a getline that may fail before the last line
AtEndOfFile_Early(n, len) == TRUE

\* line 121: std::getline fails once the n lines read are all len lines
AtEndOfFile(n, len) == n >= len

\* an exit status that does not look at the counter
ExitStatus_Success(total) == "success"

\* line 336: return total_matches > 0 ? EXIT_SUCCESS : EXIT_FAILURE
ExitStatus(total) == IF total > 0 THEN "success" ELSE "failure"

\* a join that returns while the thread still runs
ThreadEnded_Any(p) == TRUE

\* line 328: join returns once the thread function has returned
ThreadEnded(p) == p = "done"

\* the front element is read but stays queued
PopFront_Keep(q) == q

\* queue.pop()
PopFront(q) == Tail(q)

PRec(kind, f, n, m) == [kind |-> kind, file |-> f, n |-> n, m |-> m]

ParInit ==
    /\ mpc = "start"
    /\ config = DefaultConfig
    /\ files = << >>
    /\ queue = << >>
    /\ qmutex = 0
    /\ output_mutex = 0
    /\ total_matches = 0
    /\ files_processed = 0
    /\ workers = 0
    /\ joined = 0
    /\ wpc = [w \in Workers |-> "idle"]
    /\ file_path = [w \in Workers |-> 0]
    /\ wline = [w \in Workers |-> 0]
    /\ wcount = [w \in Workers |-> 0]
    /\ hstart = [w \in Workers |-> 0]
    /\ handed = << >>
    /\ pout = << >>
    /\ exit_status = "none"

\* main, lines 301-316: parse, compile, collect the files.  compile_regex
\* ends the process with EXIT_FAILURE when std::regex throws; with an empty
\* queue main returns EXIT_FAILURE
Startup ==
    /\ mpc = "start"
    /\ \E c \in ConfigArgs, n \in 0..MaxFiles :
          \E fs \in [1..n -> FileKinds] :
             LET valid == RegexValid(ProcessedPattern(ParseConfig(c)))
                 queued == IF valid THEN n ELSE 0
             IN /\ config' = ParseConfig(c)
                /\ files' = [i \in 1..queued |-> fs[i]]
                /\ queue' = [i \in 1..queued |-> i]
                /\ handed' = [i \in 1..queued |-> 0]
                /\ pout' = IF ~valid THEN << PRec("invalid", 0, 0, 0) >>
                           ELSE IF n = 0 /\ ~ParseConfig(c).quiet
                           THEN << PRec("diag", 0, 0, 0) >> ELSE << >>
                /\ mpc' = IF queued = 0 THEN "exit" ELSE "spawn"
                /\ exit_status' = IF queued = 0 THEN "failure" ELSE "none"
    /\ UNCHANGED << qmutex, output_mutex, total_matches, files_processed, workers,
                    joined, wpc, file_path, wline, wcount >>
    /\ UNCHANGED hstart
    /\ UNCHANGED << seqvars, matchvars, filevars >>

\* main, lines 319-324: the threads are created and start worker_thread
SpawnWorkers ==
    /\ mpc = "spawn"
    /\ workers' = ActualThreads(config.max_threads, Len(files))
    /\ wpc' = [w \in Workers |->
                  IF w <= ActualThreads(config.max_threads, Len(files))
                  THEN "pop" ELSE "idle"]
    /\ mpc' = "join"
    /\ UNCHANGED << config, files, queue, qmutex, output_mutex, total_matches,
                    files_processed, joined, file_path, wline, wcount, handed, pout,
                    exit_status >>
    /\ UNCHANGED hstart
    /\ UNCHANGED << seqvars, matchvars, filevars >>

\* main, lines 327-329: every join has returned, which takes that every
\* thread has ended
JoinWorkers ==
    /\ mpc = "join"
    /\ \A w \in 1..workers : ThreadEnded(wpc[w])
    /\ joined' = workers
    /\ mpc' = "summary"
    /\ UNCHANGED << config, files, queue, qmutex, output_mutex, total_matches,
                    files_processed, workers, wpc, file_path, wline, wcount, handed,
                    pout, exit_status >>
    /\ UNCHANGED hstart
    /\ UNCHANGED << seqvars, matchvars, filevars >>

\* main, lines 331-336: the summary line and the exit status
Summary ==
    /\ mpc = "summary"
    /\ pout' = IF ~config.quiet /\ ~config.show_filename_only /\ ~config.count_only
               THEN Append(pout, PRec("summary", 0, total_matches, files_processed))
               ELSE pout
    /\ exit_status' = ExitStatus(total_matches)
    /\ mpc' = "exit"
    /\ UNCHANGED << config, files, queue, qmutex, output_mutex, total_matches,
                    files_processed, workers, joined, wpc, file_path, wline, wcount,
                    handed >>
    /\ UNCHANGED hstart
    /\ UNCHANGED << seqvars, matchvars, filevars >>

\* try_pop, line 62: the lock_guard acquires the queue mutex
TryPopLock(w) ==
    /\ wpc[w] = "pop"
    /\ CanLock(qmutex)
    /\ qmutex' = w
    /\ wpc' = [wpc EXCEPT ![w] = "front"]
    /\ UNCHANGED << mpc, config, files, queue, output_mutex, total_matches,
                    files_processed, workers, joined, file_path, wline, wcount, handed,
                    pout, exit_status >>
    /\ UNCHANGED hstart
    /\ UNCHANGED << seqvars, matchvars, filevars >>

\* try_pop, lines 63-65: the queue is empty; worker_thread returns
TryPopEmpty(w) ==
    /\ wpc[w] = "front"
    /\ queue = << >>
    /\ qmutex' = 0
    /\ wpc' = [wpc EXCEPT ![w] = "done"]
    /\ file_path' = [file_path EXCEPT ![w] = 0]
    /\ UNCHANGED << mpc, config, files, queue, output_mutex, total_matches,
                    files_processed, workers, joined, wline, wcount, handed,
                    pout, exit_status >>
    /\ UNCHANGED hstart
    /\ UNCHANGED << seqvars, matchvars, filevars >>

\* try_pop, lines 66-68: value = std::move(queue.front()); queue.pop(); the
\* mutex is released and true is returned
TryPopTake(w) ==
    /\ wpc[w] = "front"
    /\ queue # << >>
    /\ file_path' = [file_path EXCEPT ![w] = Head(queue)]
    /\ queue' = PopFront(queue)
    /\ qmutex' = 0
    /\ handed' = [handed EXCEPT ![Head(queue)] = @ + 1]
    /\ wpc' = [wpc EXCEPT ![w] = "open"]
    /\ UNCHANGED << mpc, config, files, output_mutex, total_matches, files_processed,
                    workers, joined, wline, wcount, pout, exit_status >>
    /\ UNCHANGED hstart
    /\ UNCHANGED << seqvars, matchvars, filevars >>

\* process_file, lines 108-119: the file is opened
OpenFile(w) ==
    /\ wpc[w] = "open"
    /\ wpc' = [wpc EXCEPT ![w] = IF is_open(files[file_path[w]]) THEN "getline"
                                 ELSE "lock_diag"]
    /\ wline' = [wline EXCEPT ![w] = 0]
    /\ wcount' = [wcount EXCEPT ![w] = 0]
    /\ UNCHANGED << mpc, config, files, queue, qmutex, output_mutex, total_matches,
                    files_processed, workers, joined, file_path, handed, pout,
                    exit_status >>
    /\ UNCHANGED hstart
    /\ UNCHANGED << seqvars, matchvars, filevars >>

\* lines 110, 133, 168: a lock_guard acquires output_mutex
LockOutput(w) ==
    /\ wpc[w] \in {"lock_diag", "lock_match", "lock_final"}
    /\ CanLock(output_mutex)
    /\ output_mutex' = w
    /\ wpc' = [wpc EXCEPT ![w] = CASE wpc[w] = "lock_diag" -> "diag"
                                   [] wpc[w] = "lock_match" ->
                                        IF config.color_output THEN "highlight"
                                        ELSE "match"
                                   [] OTHER -> "final"]
    /\ UNCHANGED << mpc, config, files, queue, qmutex, total_matches, files_processed,
                    workers, joined, file_path, wline, wcount, handed, pout,
                    exit_status >>
    /\ UNCHANGED hstart
    /\ UNCHANGED << seqvars, matchvars, filevars >>

\* lines 111-112: the diagnostic is written, process_file returns
WriteDiag(w) ==
    /\ wpc[w] = "diag"
    /\ pout' = Append(pout, PRec("diag", file_path[w], 0, 0))
    /\ output_mutex' = ReleaseGuard(output_mutex)
    /\ wpc' = [wpc EXCEPT ![w] = "pop"]
    /\ UNCHANGED << mpc, config, files, queue, qmutex, total_matches, files_processed,
                    workers, joined, file_path, wline, wcount, handed, exit_status >>
    /\ UNCHANGED hstart
    /\ UNCHANGED << seqvars, matchvars, filevars >>

\* lines 121-131: getline delivers a line; an eligible one is counted
ScanLine(w) ==
    /\ wpc[w] = "getline"
    /\ ~AtEndOfFile(wline[w], Len(files[file_path[w]].content))
    /\ LET line == files[file_path[w]].content[wline[w] + 1]
           eligible == FileLineEligible(line, config)
       IN /\ wline' = [wline EXCEPT ![w] = @ + 1]
          /\ wcount' = [wcount EXCEPT ![w] = IF eligible THEN @ + 1 ELSE @]
          /\ total_matches' = IF eligible THEN total_matches + 1 ELSE total_matches
          /\ wpc' = [wpc EXCEPT ![w] =
                        IF eligible /\ ~(config.count_only \/ config.quiet
                                         \/ config.show_filename_only)
                        THEN "lock_match" ELSE "getline"]
    /\ UNCHANGED << mpc, config, files, queue, qmutex, output_mutex, files_processed,
                    workers, joined, file_path, handed, pout, exit_status >>
    /\ UNCHANGED hstart
    /\ UNCHANGED << seqvars, matchvars, filevars >>

\* lines 141-146: one test of the while condition of the highlight loop and,
\* when a match is found, one run of its body: start = sm[0].second.  After an
\* empty match sm[0].second is start itself: the next test is the same test,
\* the step leaves the state as it is and the thread stays in the loop
Highlight(w) ==
    /\ wpc[w] = "highlight"
    /\ LET line == files[file_path[w]].content[wline[w]]
           next == HighlightSearch(config, line, hstart[w])
       IN /\ hstart' = [hstart EXCEPT ![w] = IF next = NPOS THEN 0 ELSE next]
          /\ wpc' = [wpc EXCEPT ![w] = IF next = NPOS THEN "match" ELSE "highlight"]
    /\ UNCHANGED << mpc, config, files, queue, qmutex, output_mutex, total_matches,
                    files_processed, workers, joined, file_path, wline, wcount, handed,
                    pout, exit_status >>
    /\ UNCHANGED << seqvars, matchvars, filevars >>

\* lines 148-162: the match record is written, the lock_guard is released
WriteMatch(w) ==
    /\ wpc[w] = "match"
    /\ pout' = Append(pout, PRec("match", file_path[w], wline[w], 0))
    /\ output_mutex' = ReleaseGuard(output_mutex)
    /\ wpc' = [wpc EXCEPT ![w] = "getline"]
    /\ UNCHANGED << mpc, config, files, queue, qmutex, total_matches, files_processed,
                    workers, joined, file_path, wline, wcount, handed, exit_status >>
    /\ UNCHANGED hstart
    /\ UNCHANGED << seqvars, matchvars, filevars >>

\* line 166: getline fails, files_processed++
EndOfFile(w) ==
    /\ wpc[w] = "getline"
    /\ AtEndOfFile(wline[w], Len(files[file_path[w]].content))
    /\ files_processed' = files_processed + 1
    /\ wpc' = [wpc EXCEPT ![w] = "lock_final"]
    /\ UNCHANGED << mpc, config, files, queue, qmutex, output_mutex, total_matches,
                    workers, joined, file_path, wline, wcount, handed, pout,
                    exit_status >>
    /\ UNCHANGED hstart
    /\ UNCHANGED << seqvars, matchvars, filevars >>

\* lines 169-174: the filename or the count is written, process_file returns
WriteFinal(w) ==
    /\ wpc[w] = "final"
    /\ pout' = IF config.show_filename_only /\ wcount[w] > 0
               THEN Append(pout, PRec("filename", file_path[w], 0, 0))
               ELSE IF config.count_only
               THEN Append(pout, PRec("count", file_path[w], wcount[w], 0))
               ELSE pout
    /\ output_mutex' = ReleaseGuard(output_mutex)
    /\ wpc' = [wpc EXCEPT ![w] = "pop"]
    /\ wline' = [wline EXCEPT ![w] = 0]
    /\ wcount' = [wcount EXCEPT ![w] = 0]
    /\ UNCHANGED << mpc, config, files, queue, qmutex, total_matches, files_processed,
                    workers, joined, file_path, handed, exit_status >>
    /\ UNCHANGED hstart
    /\ UNCHANGED << seqvars, matchvars, filevars >>

ParNext ==
    \/ Startup
    \/ SpawnWorkers
    \/ JoinWorkers
    \/ Summary
    \/ \E w \in Workers : TryPopLock(w)
    \/ \E w \in Workers : TryPopEmpty(w)
    \/ \E w \in Workers : TryPopTake(w)
    \/ \E w \in Workers : OpenFile(w)
    \/ \E w \in Workers : LockOutput(w)
    \/ \E w \in Workers : WriteDiag(w)
    \/ \E w \in Workers : ScanLine(w)
    \/ \E w \in Workers : Highlight(w)
    \/ \E w \in Workers : WriteMatch(w)
    \/ \E w \in Workers : EndOfFile(w)
    \/ \E w \in Workers : WriteFinal(w)

\* the steps of main and of one worker thread
MainNext == Startup \/ SpawnWorkers \/ JoinWorkers \/ Summary

WorkerNext(w) ==
    \/ TryPopLock(w) \/ TryPopEmpty(w) \/ TryPopTake(w)
    \/ OpenFile(w) \/ LockOutput(w) \/ WriteDiag(w)
    \/ ScanLine(w) \/ Highlight(w) \/ WriteMatch(w)
    \/ EndOfFile(w) \/ WriteFinal(w)

\* the scheduler lets every thread that can take a step take one
ParFairness == WF_vars(MainNext) /\ \A w \in Workers : WF_vars(WorkerNext(w))

(***************************************************************************)
(* Properties of the concurrent runner.                                    *)
(***************************************************************************)
\* the number of eligible lines of the queued file f: what process_file
\* counts when it scans the file alone; a file that cannot be opened has none
FileEligibleCount(f) ==
    IF files[f].openable
    THEN Cardinality({k \in 1..Len(files[f].content) :
                         FileLineEligible(files[f].content[k], config)})
    ELSE 0

RECURSIVE SumEligible(_)
SumEligible(n) == IF n = 0 THEN 0 ELSE FileEligibleCount(n) + SumEligible(n - 1)

AllJoined == mpc \in {"summary", "exit"} /\ Len(files) > 0

InProcessFile(w) ==
    wpc[w] \in {"open", "getline", "lock_diag", "diag", "lock_match", "highlight",
                "match", "lock_final", "final"}

\* C9: once all workers have joined, total_matches is the sum over the queued
\* files of their numbers of eligible lines, for every thread count.
C9_TotalEqualsSum ==
    AllJoined => total_matches = SumEligible(Len(files))

\* the same with at least one thread: no increment is lost or applied twice
TotalEqualsSumWithWorkers ==
    (AllJoined /\ config.max_threads >= 1) => total_matches = SumEligible(Len(files))

\* C10: every queued path is returned by try_pop at most once, a path is out
\* of the queue exactly when it was returned once, no two workers are in
\* process_file on the same path, and a worker ends only on an empty queue.
C10_ExactlyOnce ==
    /\ \A f \in DOMAIN handed :
          /\ handed[f] <= 1
          /\ handed[f] = 0 <=> \E i \in 1..Len(queue) : queue[i] = f
    /\ \A i, j \in 1..Len(queue) : i # j => queue[i] # queue[j]
    /\ \A w1, w2 \in Workers :
          (w1 # w2 /\ InProcessFile(w1) /\ InProcessFile(w2))
              => file_path[w1] # file_path[w2]
    /\ \A w \in Workers : wpc[w] = "done" => queue = << >>

C10_Witness ==
    /\ workers = 2
    /\ InProcessFile(1) /\ InProcessFile(2)
    /\ file_path[1] # file_path[2]
    /\ \A f \in DOMAIN handed : handed[f] = 1
    /\ queue = << >>

\* every queued path was returned by try_pop and every created thread ended
RunComplete ==
    /\ mpc = "exit"
    /\ \A f \in DOMAIN handed : handed[f] = 1
    /\ \A w \in 1..workers : wpc[w] = "done"

\* C11: once main has created at least one worker for a non-empty queue, for
\* every pattern and every option combination (colour on or off) the workers
\* end, main's joins return, and by then process_file has run to completion
\* on every queued file.
C11_RunCompletes == (mpc = "join" /\ workers >= 1) ~> RunComplete

\* the same without colour output: the run completes
RunCompletesWithoutColour ==
    (mpc = "join" /\ workers >= 1 /\ ~config.color_output) ~> RunComplete

\* the regions of process_file that write a record: lines 111, 135-162 and
\* 169-173
InOutputRegion(w) == wpc[w] \in {"diag", "highlight", "match", "final"}

WaitsForOutput(w) == wpc[w] \in {"lock_diag", "lock_match", "lock_final"}

\* C12: at most one worker is inside an output-writing region at any time,
\* a worker inside one holds output_mutex, and every record written while the
\* workers run is written by the worker that holds output_mutex.
C12_OutputExclusion ==
    /\ [](/\ \A w \in Workers : InOutputRegion(w) => output_mutex = w
          /\ \A w1, w2 \in Workers :
                (InOutputRegion(w1) /\ InOutputRegion(w2)) => w1 = w2)
    /\ [][(pout' # pout /\ mpc = "join")
             => \E w \in Workers : /\ output_mutex = w
                                    /\ InOutputRegion(w)
                                    /\ wpc'[w] # wpc[w]]_vars

C12_Witness ==
    \E w1, w2 \in Workers :
        /\ wpc[w1] = "match" /\ output_mutex = w1
        /\ WaitsForOutput(w2)
        /\ Len(pout) >= 1

\* the records of the queued file f, in the order they were written
FileRecIdx(f) == {i \in 1..Len(pout) : pout[i].file = f}

IsFinalRec(r) == r.kind \in {"filename", "count"}

\* worker w is still between the open and the last write of process_file
ScansFile(w, f) ==
    /\ file_path[w] = f
    /\ wpc[w] \in {"open", "getline", "lock_match", "highlight", "match",
                    "lock_final", "final"}

\* C13: for each file the match records appear in strictly increasing
\* line-number order, and the file's count or filename record is the last
\* record of the file, written when no worker scans the file any more, the
\* count being the count of the whole file; under every interleaving.
C13_PerFileOrder ==
    \A f \in DOMAIN files :
        /\ \A i, j \in FileRecIdx(f) :
              i < j => /\ ~IsFinalRec(pout[i])
                       /\ (pout[i].kind = "match" /\ pout[j].kind = "match")
                              => pout[i].n < pout[j].n
        /\ \A i \in FileRecIdx(f) :
              IsFinalRec(pout[i])
                  => /\ \A w \in Workers : ~ScansFile(w, f)
                     /\ pout[i].kind = "count" => pout[i].n = FileEligibleCount(f)
                     /\ pout[i].kind = "filename" => FileEligibleCount(f) > 0

C13_Witness ==
    \E i, j, k \in 1..Len(pout) :
        /\ i < j /\ j < k
        /\ pout[i].kind = "match" /\ pout[j].kind = "match" /\ pout[k].kind = "match"
        /\ pout[i].file = pout[k].file /\ pout[j].file # pout[i].file

SummaryIdx == {i \in 1..Len(pout) : pout[i].kind = "summary"}

SummarySuppressed == config.quiet \/ config.show_filename_only \/ config.count_only

\* C14: the summary line is written at most once, only after every worker has
\* ended and been joined, after every other record, with the final values of
\* total_matches and files_processed, and never with quiet, count-only or
\* filenames-only; a run whose workers were joined ends with exactly one
\* summary line unless one of these modes is set.
C14_SummaryOnce ==
    /\ Cardinality(SummaryIdx) <= 1
    /\ \A i \in SummaryIdx :
          /\ i = Len(pout)
          /\ mpc = "exit"
          /\ joined = workers
          /\ \A w \in 1..workers : wpc[w] = "done"
          /\ pout[i].n = total_matches
          /\ pout[i].m = files_processed
          /\ ~SummarySuppressed
    /\ (mpc = "exit" /\ Len(files) > 0) => (SummaryIdx # {} <=> ~SummarySuppressed)

C14_Witness ==
    /\ mpc = "exit"
    /\ SummaryIdx # {}
    /\ workers = 2
    /\ total_matches > 0
    /\ Len(pout) >= 3

\* the queued files that can be opened
OpenableFiles == {f \in DOMAIN files : files[f].openable}

\* C15: a file that cannot be opened gets one diagnostic and no output
\* record, it adds nothing to total_matches and files_processed, and the
\* worker that wrote the diagnostic goes straight back to try_pop; main is not
\* affected.
C15_OpenFailure ==
    /\ [](/\ \A f \in DOMAIN files \ OpenableFiles :
                /\ \A i \in FileRecIdx(f) : pout[i].kind = "diag"
                /\ Cardinality(FileRecIdx(f)) <= 1
          /\ \A i \in 1..Len(pout) :
                (pout[i].kind = "diag" /\ pout[i].file # 0)
                    => pout[i].file \notin OpenableFiles
          /\ files_processed <= Cardinality({f \in OpenableFiles : handed[f] = 1})
          /\ total_matches <= SumEligible(Len(files))
          /\ (AllJoined /\ workers >= 1)
                => /\ files_processed = Cardinality(OpenableFiles)
                   /\ total_matches = SumEligible(Len(files)))
    /\ [][\A w \in Workers :
             (wpc[w] = "diag" /\ wpc'[w] # "diag")
                 => /\ wpc'[w] = "pop"
                    /\ total_matches' = total_matches
                    /\ files_processed' = files_processed
                    /\ mpc' = mpc /\ exit_status' = exit_status]_vars

C15_Witness ==
    /\ mpc = "exit" /\ workers = 1
    /\ Len(files) = 2 /\ ~files[1].openable
    /\ files_processed = 1 /\ total_matches = 2
    /\ \E i, j \in 1..Len(pout) :
          /\ i < j
          /\ pout[i].kind = "diag" /\ pout[i].file = 1
          /\ pout[j].kind = "match" /\ pout[j].file = 2

\* C16: when the pattern does not compile, main.cpp ends with a failure
\* status and the diagnostic of compile_regex alone: no file is queued or
\* opened, no worker is created, no record is written.
C16_CompileFailureAborts ==
    (mpc # "start" /\ config.pattern = BadPattern)
        => /\ mpc = "exit" /\ exit_status = "failure"
           /\ workers = 0 /\ joined = 0
           /\ \A w \in Workers : wpc[w] = "idle" /\ file_path[w] = 0
           /\ queue = << >> /\ handed = << >>
           /\ total_matches = 0 /\ files_processed = 0
           /\ pout = << PRec("invalid", 0, 0, 0) >>

C16_Witness ==
    /\ mpc = "exit"
    /\ config.pattern = BadPattern
    /\ exit_status = "failure"

\* C17: main.cpp ends with success iff total_matches > 0 once the workers
\* were joined, in every output mode; with at least one worker that is iff
\* some queued file that can be opened holds an output-eligible line, and a
\* file that cannot be opened counts for nothing.
C17_ExitStatus ==
    /\ mpc # "exit" => exit_status = "none"
    /\ mpc = "exit"
          => /\ exit_status \in {"success", "failure"}
             /\ exit_status = "success" <=> total_matches > 0
    /\ (mpc = "exit" /\ workers >= 1)
          => (exit_status = "success"
                 <=> \E f \in DOMAIN files :
                        /\ files[f].openable
                        /\ \E k \in 1..Len(files[f].content) :
                               FileLineEligible(files[f].content[k], config))

C17_Witness ==
    /\ mpc = "exit" /\ config.quiet
    /\ exit_status = "success"
    /\ Len(files) = 2 /\ ~files[1].openable
    /\ pout = << PRec("diag", 1, 0, 0) >>

\* C29: once the threads are created, their number is the smaller of the
\* thread count and the number of queued files, and it is at least 1 when
\* files are queued, whatever the thread count (from -j or from
\* std::thread::hardware_concurrency).
C29_WorkerCount ==
    (mpc \in {"join", "summary", "exit"} /\ Len(files) > 0)
        => /\ workers = Min(config.max_threads, Len(files))
           /\ workers >= 1

\* the same for a thread count of at least 1: it holds
WorkerCountWithThreads ==
    (mpc \in {"join", "summary", "exit"} /\ Len(files) > 0 /\ config.max_threads >= 1)
        => /\ workers = Min(config.max_threads, Len(files))
           /\ workers >= 1

\* the iteration of the highlight loop worker w is about to run ends the
\* loop or moves start beyond its present offset
SearchAdvances(w) ==
    LET next == HighlightSearch(config, files[file_path[w]].content[wline[w]], hstart[w])
    IN next = NPOS \/ next > hstart[w]

\* C30: a worker that holds output_mutex releases it at some later time,
\* and every iteration of the highlight loop that finds a match moves the
\* search start forward.
C30_LockReleased ==
    /\ \A w \in Workers : (output_mutex = w) ~> (output_mutex # w)
    /\ [](\A w \in Workers : wpc[w] = "highlight" => SearchAdvances(w))

\* the same for a pattern that matches no empty string: it holds
LockReleasedWithoutEmptyMatch ==
    /\ \A w \in Workers :
          (output_mutex = w /\ config.pattern # EmptyPattern) ~> (output_mutex # w)
    /\ [](\A w \in Workers :
             (wpc[w] = "highlight" /\ config.pattern # EmptyPattern)
                 => SearchAdvances(w))

\* worker w is outside process_file: before try_pop, inside it, or ended
OutsideProcessFile(w) == wpc[w] \in {"idle", "pop", "front", "done"}

\* C31: no worker holds the queue mutex and output_mutex together (the
\* queue mutex is held only inside try_pop); a worker that is outside
\* process_file does not hold output_mutex; and no deadlock is reached:
\* until main returns some thread can take a step, and whenever a mutex is
\* held its owner can take a step.
C31_NoDeadlock ==
    /\ \A w \in Workers : ~(qmutex = w /\ output_mutex = w)
    /\ \A w \in Workers : qmutex = w => wpc[w] = "front"
    /\ \A w \in Workers : OutsideProcessFile(w) => output_mutex # w
    /\ mpc \in {"spawn", "join", "summary"} => ENABLED ParNext
    /\ qmutex \in Workers => ENABLED WorkerNext(qmutex)
    /\ output_mutex \in Workers => ENABLED WorkerNext(output_mutex)

\* worker 1 has returned from process_file and is inside try_pop with the
\* queue mutex while worker 2 holds output_mutex
C31_Witness ==
    /\ mpc = "join"
    /\ qmutex = 1 /\ wpc[1] = "front" /\ handed[1] = 1 /\ files_processed >= 1
    /\ output_mutex = 2 /\ InOutputRegion(2)
    /\ queue = << >>

\* the queued files a worker took, opened and read to their end
ScannedToEnd == {f \in OpenableFiles : handed[f] = 1}

\* C32: once all workers have joined, files_processed is the number of
\* queued files that were opened and scanned to their end; it does not
\* exceed the number of queued files and equals it when every queued file
\* opens.
C32_FilesProcessed ==
    AllJoined =>
        /\ files_processed = Cardinality(ScannedToEnd)
        /\ files_processed <= Len(files)
        /\ OpenableFiles = DOMAIN files => files_processed = Len(files)

\* the same with at least one thread: it holds
FilesProcessedWithWorkers ==
    (AllJoined /\ workers >= 1) =>
        /\ files_processed = Cardinality(ScannedToEnd)
        /\ files_processed <= Len(files)
        /\ OpenableFiles = DOMAIN files => files_processed = Len(files)

(***************************************************************************)
(* The matchers on one line: main (lines 56-59) and process_stream (lines  *)
(* 503-508) of src/scanr.cpp, compile_regex and process_file (line 123) of *)
(* src/main.cpp.                                                           *)
(***************************************************************************)
\* the characters of the lines: letters of both cases, a metacharacter and
\* the underscore
MatchAlphabet == {"a", "x", "A", ".", "_"}
MatchLines == UNION {[1..n -> MatchAlphabet] : n \in 0..MaxLineLen}

\* a pattern of word characters, a pattern with a metacharacter, a list of
\* two patterns, a list of two patterns that match the same region, and
\* patterns that begin or end with \b, ^ or $
MatchPatternLists ==
    { << << "a", "x" >> >>, << << "a", "." >> >>, << << "a", "." >>, << "x", "_" >> >>,
      << << "a", "x" >>, << "a", "." >> >>,
      << << "\\", "b", "a", "x", "$" >> >>,
      << << "^", ".", "x" >>, << "a", "x", "\\", "b" >> >> }

MatchArgv ==
    [count_only : {FALSE}, ignore_case : BOOLEAN, list_filenames : {FALSE},
     invert_match : {FALSE}, use_extended_regex : BOOLEAN,
     match_whole_word : BOOLEAN, only_matching : BOOLEAN,
     lines_after : {0}, lines_before : {0}, patterns : MatchPatternLists]

NoMatchResult == [is_match |-> FALSE, match_positions |-> << >>]

\* the ScanrConfig of src/main.cpp for the same options and the first pattern
MatchConfig(a) ==
    [DefaultConfig EXCEPT !.case_insensitive = a.ignore_case,
                          !.whole_word = a.match_whole_word,
                          !.pattern = a.patterns[1]]

NoPatternTexts == [seq |-> << >>, seq_again |-> << >>, par |-> << >>, par_again |-> << >>]

\* compile_patterns, lines 302-321, on every pattern of the list
WrapAll(patterns, match_whole_word) ==
    [k \in 1..Len(patterns) |-> WrapPattern(patterns[k], match_whole_word)]

MatchIdle ==
    /\ mstage = "input"
    /\ margv = DefaultSettings
    /\ mline = << >>
    /\ mseq = NoMatchResult
    /\ mpar = FALSE
    /\ mwb = << >>
    /\ mrecs = << >>
    /\ mpat = NoPatternTexts

MatchInit ==
    /\ mstage = "input"
    /\ margv \in MatchArgv
    /\ mline \in MatchLines
    /\ mseq = NoMatchResult
    /\ mpar = FALSE
    /\ mwb = << >>
    /\ mrecs = << >>
    /\ mpat = NoPatternTexts

\* both programs compile the patterns and decide the line; src/scanr.cpp
\* writes the line when it matches; is_word_boundary is applied at every
\* offset of the line
MatchOneLine ==
    /\ mstage = "input"
    /\ mseq' = MatchLine(mline, Configure(margv))
    /\ mpar' = (RegexSearch(compile_regex(MatchConfig(margv)), mline, 0) # << >>)
    /\ mwb' = [k \in 1..(Len(mline) + 1) |-> is_word_boundary(mline, k - 1)]
    /\ mrecs' = LET s == Configure(margv)
                    m == MatchLine(mline, s)
                IN IF m.is_match
                   THEN MatchRec(1, mline, s.only_matching, m.match_positions).recs
                   ELSE << >>
    /\ mpat' = LET s == Configure(margv)
                   c == MatchConfig(margv)
                   once == IF s.use_extended_regex
                           THEN WrapAll(s.patterns, s.match_whole_word) ELSE << >>
               IN [seq |-> once,
                   seq_again |-> WrapAll(once, s.match_whole_word),
                   par |-> ProcessedPattern(c),
                   par_again |-> ProcessedPattern([c EXCEPT !.pattern = ProcessedPattern(c)])]
    /\ mstage' = "matched"
    /\ UNCHANGED << margv, mline >>
    /\ UNCHANGED << seqvars, parvars, filevars >>

MatchNext == MatchOneLine

\* pattern occurs in line at offset s, compared character by character
OccursAt(line, pattern, s, icase) ==
    /\ s + Len(pattern) <= Len(line)
    /\ \A k \in 1..Len(pattern) : CharEq(line[s + k], pattern[k], icase)

ContainsLiteral(line, pattern, icase) ==
    \E s \in 0..Len(line) : OccursAt(line, pattern, s, icase)

\* C19: without -E (and without -w) the line matches iff it contains one of
\* the patterns as an exact substring, compared case-insensitively with -i,
\* whatever -i and -o are; "." in a pattern matches only ".".
C19_LiteralSubstring ==
    (mstage = "matched" /\ ~margv.use_extended_regex /\ ~margv.match_whole_word)
        => (mseq.is_match
               <=> \E k \in 1..Len(margv.patterns) :
                      ContainsLiteral(mline, margv.patterns[k], margv.ignore_case))

\* the same when none of -i, -w, -o is given: it holds
LiteralSubstringFastPath ==
    (mstage = "matched" /\ ~Configure(margv).use_extended_regex)
        => (mseq.is_match
               <=> \E k \in 1..Len(margv.patterns) :
                      ContainsLiteral(mline, margv.patterns[k], FALSE))

\* pattern occurs in line as a whole word: the character before it is
\* absent or no word character, and so is the character after it
WholeWordOccurrence(line, pattern, icase) ==
    \E s \in 0..Len(line) :
        /\ OccursAt(line, pattern, s, icase)
        /\ s = 0 \/ ~IsRegexWordChar(line[s])
        /\ s + Len(pattern) = Len(line) \/ ~IsRegexWordChar(line[s + Len(pattern) + 1])

MadeOfWordChars(pattern) ==
    pattern # << >> /\ \A k \in 1..Len(pattern) : IsRegexWordChar(pattern[k])

\* C20: with -w and patterns made of word characters (letters, digits and
\* the underscore, as the \b assertion takes them), in both programs the line
\* matches iff it holds an occurrence of a pattern that has no word
\* character right before it and none right after it.
C20_WholeWord ==
    (/\ mstage = "matched" /\ margv.match_whole_word
     /\ \A k \in 1..Len(margv.patterns) : MadeOfWordChars(margv.patterns[k]))
        => /\ mseq.is_match
                 <=> \E k \in 1..Len(margv.patterns) :
                        WholeWordOccurrence(mline, margv.patterns[k], margv.ignore_case)
           /\ mpar <=> WholeWordOccurrence(mline, margv.patterns[1], margv.ignore_case)

C20_Witness ==
    /\ mstage = "matched" /\ margv.match_whole_word /\ ~margv.use_extended_regex
    /\ margv.patterns = << << "a", "x" >> >>
    /\ mline = << ".", "a", "x", "." >>
    /\ mseq.is_match /\ mpar

\* C23: at the start and at the end of every occurrence of a pattern in the
\* line, is_word_boundary returns what the \b assertion of std::regex gives
\* at that offset.
C23_WordBoundaryAgrees ==
    mstage = "matched" =>
        \A k \in 1..Len(margv.patterns) : \A s \in 0..Len(mline) :
            OccursAt(mline, margv.patterns[k], s, margv.ignore_case)
                => LET e == s + Len(margv.patterns[k])
                   IN /\ mwb[s + 1] <=> RegexWordBoundary(mline, s)
                      /\ mwb[e + 1] <=> RegexWordBoundary(mline, e)

\* the same on lines without an underscore: it holds
WordBoundaryWithoutUnderscore ==
    (mstage = "matched" /\ \A i \in 1..Len(mline) : mline[i] # "_") =>
        \A k \in 1..Len(margv.patterns) : \A s \in 0..Len(mline) :
            OccursAt(mline, margv.patterns[k], s, margv.ignore_case)
                => LET e == s + Len(margv.patterns[k])
                   IN /\ mwb[s + 1] <=> RegexWordBoundary(mline, s)
                      /\ mwb[e + 1] <=> RegexWordBoundary(mline, e)

\* the successive non-overlapping matches of compiled pattern k in mline,
\* scanned from offset from, as a set of <<position, length>>
RECURSIVE MatchesOfPattern(_, _)
MatchesOfPattern(rx, from) ==
    IF from > Len(mline) THEN {}
    ELSE LET e == RegexMatchHere(rx.toks, mline, from, rx.icase)
         IN IF e = NPOS THEN MatchesOfPattern(rx, from + 1)
            ELSE {<< from, e - from >>}
                     \cup MatchesOfPattern(rx, IF e > from THEN e ELSE from + 1)

\* C27: with -o the span list of a line holds each span as many times as
\* there are patterns with that non-overlapping match (nothing is
\* de-duplicated, nothing else is in the list); it is sorted ascending by
\* start offset; every span lies within the line; the line is a match iff
\* the list is not empty; and process_stream writes one record per span,
\* the text of the span, in the order of the list.
C27_OnlyMatchingSpans ==
    (mstage = "matched" /\ margv.only_matching) =>
        LET spans == mseq.match_positions
            rxs == compile_patterns(Configure(margv))
        IN /\ \A s \in 0..Len(mline) : \A l \in 0..Len(mline) :
                 Cardinality({i \in 1..Len(spans) : spans[i] = << s, l >>})
                     = Cardinality({k \in 1..Len(rxs) :
                                       << s, l >> \in MatchesOfPattern(rxs[k], 0)})
           /\ \A i, j \in 1..Len(spans) : i < j => spans[i][1] <= spans[j][1]
           /\ \A i \in 1..Len(spans) :
                 spans[i][1] >= 0 /\ spans[i][1] + spans[i][2] <= Len(mline)
           /\ mseq.is_match <=> spans # << >>
           /\ Len(mrecs) = Len(spans)
           /\ \A i \in 1..Len(spans) :
                 mrecs[i] = SubSeq(mline, spans[i][1] + 1, spans[i][1] + spans[i][2])

\* "ax" and "a." on the line "aaax": the second pattern's spans come after
\* the first pattern's before the sort, and both patterns match offset 2
C27_Witness ==
    /\ mstage = "matched" /\ margv.only_matching /\ ~margv.match_whole_word
    /\ margv.patterns = << << "a", "x" >>, << "a", "." >> >>
    /\ mline = << "a", "a", "a", "x" >>
    /\ mseq.match_positions = << << 0, 2 >>, << 2, 2 >>, << 2, 2 >> >>
    /\ mrecs = << << "a", "a" >>, << "a", "x" >>, << "a", "x" >> >>

BeginsWithBoundary(p) ==
    (Len(p) >= 2 /\ p[1] = "\\" /\ p[2] = "b") \/ (Len(p) >= 1 /\ p[1] = "^")
EndsWithBoundary(p) ==
    (Len(p) >= 2 /\ p[Len(p) - 1] = "\\" /\ p[Len(p)] = "b")
        \/ (Len(p) >= 1 /\ p[Len(p)] = "$")

\* pattern p was wrapped to w, and w was wrapped to again
NoDoubleWrap(p, w, again) ==
    /\ BeginsWithBoundary(p) => (Len(w) >= Len(p) /\ SubSeq(w, 1, Len(p)) = p)
    /\ EndsWithBoundary(p)
          => (Len(w) >= Len(p) /\ SubSeq(w, Len(w) - Len(p) + 1, Len(w)) = p)
    /\ again = w

\* C28: with -w, in both programs a pattern that begins with \b or ^ gets
\* nothing added in front, a pattern that ends with \b or $ gets nothing
\* added at its end, and wrapping the wrapped text changes nothing.
C28_NoDoubleWrap ==
    (mstage = "matched" /\ margv.match_whole_word) =>
        /\ \A k \in 1..Len(margv.patterns) :
              NoDoubleWrap(margv.patterns[k], mpat.seq[k], mpat.seq_again[k])
        /\ NoDoubleWrap(margv.patterns[1], mpat.par, mpat.par_again)

\* the same for src/scanr.cpp alone: it holds
SeqNoDoubleWrap ==
    (mstage = "matched" /\ margv.match_whole_word) =>
        \A k \in 1..Len(margv.patterns) :
            NoDoubleWrap(margv.patterns[k], mpat.seq[k], mpat.seq_again[k])

(***************************************************************************)
(* The specifications: Spec is the sequential program, SpecPar the         *)
(* concurrent runner.                                                      *)
(***************************************************************************)
Init == SeqInit /\ ParInit /\ MatchIdle /\ FileIdle

Next == SeqNext
Spec == Init /\ [][Next]_vars

NextPar == ParNext
SpecPar == Init /\ [][NextPar]_vars

\* the concurrent runner under a scheduler that starves no thread
SpecParFair == SpecPar /\ ParFairness

\* the matchers applied to every line and command line of the bounded sets
InitMatch == SeqInit /\ ParInit /\ MatchInit /\ FileIdle
NextMatch == MatchNext
SpecMatch == InitMatch /\ [][NextMatch]_vars

\* the sequential program run on a list of files
NextFiles == FilesNext
SpecFiles == Init /\ [][NextFiles]_vars

====
